---- MODULE Spec2Model ----
(***************************************************************************)
(* A model of analyze_lol_data (src/analyze_players.py): one run of the    *)
(* rating pipeline, stage by stage.                                        *)
(*                                                                         *)
(* Numbers.  A cell of the table is a tagged value: a number, NaN (a       *)
(* missing value) or a string that is no number.  Statistic values are     *)
(* decimals held in units of 1/Scale; a division rounds down to a unit.    *)
(* The rounding of binary64 itself is not modelled.  Games are whole       *)
(* numbers.  Weights are held in hundredths (0.25 is 25), so a             *)
(* CompositeScore is in units of 1/(100*Scale) and a PlayerRating in units *)
(* of 1/Scale.                                                             *)
(*                                                                         *)
(* pandas and scikit-learn are modelled by their documented behaviour:     *)
(* Series.mean skips NaN and is NaN over no values; StandardScaler uses    *)
(* the population variance, ignores NaN in fit, keeps it in transform and  *)
(* replaces a zero scale by 1, and rejects an array of no rows;            *)
(* MinMaxScaler does the same for a zero range; indexing a frame by a      *)
(* list with an absent label raises KeyError; comparing an object column   *)
(* that holds a string with a number raises TypeError; sort_values sorts   *)
(* with 'quicksort', which is not stable, and puts NaN last.               *)
(***************************************************************************)
EXTENDS Integers, Sequences, FiniteSets

\* ---------------------------------------------------------------- bounds
\* Units per 1 of a decimal value.
Scale == 100
\* The longest table read from the file.
MaxRows == 3

\* ------------------------------------------------------- configuration
min_games == 15
\* head(20)
TopK == 20

\* Two of the six configured statistics, one of weight 0.25 and one of
\* weight 0.15, in the order of the dictionary.
key_stats == <<"Win Rate", "GPM">>

StatNames == {key_stats[i] : i \in 1..Len(key_stats)}

\* stat_weights as configured, in hundredths.
config_weights == [c \in StatNames |-> IF c = "Win Rate" THEN 25 ELSE 15]

display_cols == {"PlayerRating", "Games", "Win Rate", "GPM"}

\* ---------------------------------------------------------------- values
NaN == [t |-> "nan", v |-> 0]
Str == [t |-> "str", v |-> 0]
Num(n) == [t |-> "num", v |-> n]
IsNum(x) == x.t = "num"
IsNaN(x) == x.t = "nan"

RECURSIVE SumSeq(_)
SumSeq(s) == IF s = <<>> THEN 0 ELSE Head(s) + SumSeq(Tail(s))

\* The numbers of a column, NaN skipped.
NumsOf(col) == SelectSeq(col, IsNum)

\* The numbers of a column as integers.
Values(col) == [i \in 1..Len(NumsOf(col)) |-> NumsOf(col)[i].v]

Square(n) == n * n

RECURSIVE SqrtBetween(_, _, _)
SqrtBetween(n, lo, hi) ==
    IF lo >= hi THEN lo
    ELSE LET mid == (lo + hi + 1) \div 2
         IN IF mid * mid <= n THEN SqrtBetween(n, mid, hi)
            ELSE SqrtBetween(n, lo, mid - 1)

\* The square root, rounded down.
Sqrt(n) == SqrtBetween(n, 0, n)

\* ----------------------------------------------------------------- state
VARIABLES
    pc,             \* the stage the run has reached
    file,           \* the data file: "ok", "missing" or "unreadable"
    columns,        \* df.columns
    df,             \* the frame: a sequence of rows [Player, cells]
    stat_weights,   \* the weights still in use
    df_normalized,  \* the standardized statistics, row by row
    df_sorted,      \* the frame sorted by rating
    table,          \* the rows printed as the top 20
    out,            \* what the run has printed
    err             \* the exception that ended the run, or "none"

vars == <<pc, file, columns, df, stat_weights, df_normalized, df_sorted, table, out, err>>

Msg(k, c, n) == [k |-> k, col |-> c, n |-> n]

\* The column c of frame d.
Column(d, c) == [i \in 1..Len(d) |-> d[i].cells[c]]

\* d with column c set to the values vs (the column is added if new).
SetColumn(d, c, vs) ==
    [i \in 1..Len(d) |->
        [d[i] EXCEPT !.cells =
            [k \in (DOMAIN d[i].cells) \cup {c} |-> IF k = c THEN vs[i] ELSE d[i].cells[k]]]]

DropColumn(d, c) ==
    [i \in 1..Len(d) |->
        [d[i] EXCEPT !.cells = [k \in (DOMAIN d[i].cells) \ {c} |-> d[i].cells[k]]]]

\* ----------------------------------------------------------------- input
AllColumns == {"Games", "Win Rate", "GPM", "Unnamed: 1"}

\* What a cell of the file can hold after read_csv: '-' and an empty cell
\* are NaN, a text that is no number stays a string.
GamesCells == {NaN, Str, Num(min_games - 1), Num(min_games)}
\* A Win Rate may be missing in the file; a GPM may be a text that is no
\* number.
WinRateCells == {NaN, Num(Scale), Num(2 * Scale)}
GPMCells == {Str, Num(Scale), Num(2 * Scale)}

\* The rows a file with the columns cols can hold.
RowsOver(cols) ==
    { [c \in cols |-> IF c = "Games" THEN g
                      ELSE IF c = "Win Rate" THEN w
                      ELSE IF c = "GPM" THEN p
                      ELSE NaN] :
        g \in GamesCells, w \in WinRateCells, p \in GPMCells }

\* read_csv types a column as a whole: Games is numeric (numbers and NaN),
\* or an object column whose cells are strings and NaN.
GamesTyped(col) ==
    (\E i \in 1..Len(col) : col[i].t = "str") => (\A i \in 1..Len(col) : col[i].t # "num")

\* The frame of the rows r: the first column of the file is the index (the
\* player), here the row's position in the file.
Frame(r) == [i \in 1..Len(r) |-> [Player |-> i, cells |-> r[i]]]

\* --------------------------------------------------------------- actions
Init ==
    /\ pc = "start"
    /\ file \in {"ok", "missing", "unreadable"}
    /\ columns = {}
    /\ df = <<>>
    /\ stat_weights = config_weights
    /\ df_normalized = <<>>
    /\ df_sorted = <<>>
    /\ table = <<>>
    /\ out = <<>>
    /\ err = "none"

\* Lines 25-38: read the file, or report why not and return.
Load ==
    /\ pc = "start"
    /\ \/ /\ file = "ok"
          /\ \E cols \in SUBSET AllColumns : \E n \in 0..MaxRows :
                \E r \in [1..n -> RowsOver(cols)] :
                    /\ "Games" \in cols => GamesTyped([i \in 1..n |-> r[i]["Games"]])
                    /\ columns' = cols
                    /\ df' = Frame(r)
          /\ out' = Append(out, Msg("loading", "", 0))
          /\ pc' = "loaded"
       \/ /\ file = "missing"
          /\ out' = out \o <<Msg("loading", "", 0), Msg("file not found", "", 0)>>
          /\ pc' = "returned"
          /\ UNCHANGED <<columns, df>>
       \/ /\ file = "unreadable"
          /\ out' = out \o <<Msg("loading", "", 0), Msg("read error", "", 0)>>
          /\ pc' = "returned"
          /\ UNCHANGED <<columns, df>>
    /\ UNCHANGED <<file, stat_weights, df_normalized, df_sorted, table, err>>

\* pd.to_numeric(errors='coerce'): what is no number becomes NaN.
to_numeric(x) == IF IsNum(x) THEN x ELSE NaN

\* The warnings of lines 54-55, in the order of key_stats.
Warnings(cols) ==
    LET Absent(c) == c \notin cols
        absent == SelectSeq(key_stats, Absent)
    IN [i \in 1..Len(absent) |-> Msg("warning: column not found", absent[i], 0)]

\* Lines 40-56: drop the unnamed column, make the statistics numeric, and
\* drop the weight of each statistic the file does not have.
Clean ==
    /\ pc = "loaded"
    /\ LET cols1 == columns \ {"Unnamed: 1"}
           d1 == IF "Unnamed: 1" \in columns THEN DropColumn(df, "Unnamed: 1") ELSE df
           present == StatNames \cap cols1
       IN /\ columns' = cols1
          /\ df' = [i \in 1..Len(d1) |->
                      [d1[i] EXCEPT !.cells =
                          [c \in cols1 |-> IF c \in present THEN to_numeric(d1[i].cells[c])
                                           ELSE d1[i].cells[c]]]]
          /\ stat_weights' = [c \in present |-> stat_weights[c]]
          /\ out' = out \o Warnings(cols1)
    /\ pc' = "cleaned"
    /\ UNCHANGED <<file, df_normalized, df_sorted, table, err>>

\* df['Games'] >= min_games for one row: NaN compares False.
Eligible(row) == IsNum(row.cells["Games"]) /\ row.cells["Games"].v >= min_games

\* Lines 60-63: keep the players with enough games.
Filter ==
    /\ pc = "cleaned"
    /\ IF "Games" \notin columns
       THEN \* df['Games'] names a column the frame does not have
            /\ pc' = "crashed"
            /\ err' = "KeyError: Games"
            /\ UNCHANGED <<df, out>>
       ELSE IF \E i \in 1..Len(df) : df[i].cells["Games"].t = "str"
       THEN \* '>=' between a str and an int
            /\ pc' = "crashed"
            /\ err' = "TypeError: Games"
            /\ UNCHANGED <<df, out>>
       ELSE /\ df' = SelectSeq(df, Eligible)
            /\ out' = Append(out, Msg("filtered", "", Len(df) - Len(SelectSeq(df, Eligible))))
            /\ pc' = "filtered"
            /\ UNCHANGED err
    /\ UNCHANGED <<file, columns, stat_weights, df_normalized, df_sorted, table>>

\* Series.mean(): the mean of the values that are not NaN; NaN if none.
mean(col) ==
    LET nums == Values(col)
    IN IF nums = <<>> THEN NaN ELSE Num(SumSeq(nums) \div Len(nums))

\* Series.fillna(m)
fillna(col, m) == [i \in 1..Len(col) |-> IF IsNaN(col[i]) THEN m ELSE col[i]]

\* Lines 65-69: fill the missing values of each statistic the frame has.
Impute ==
    /\ pc = "filtered"
    /\ df' = [i \in 1..Len(df) |->
                [df[i] EXCEPT !.cells =
                    [c \in columns |->
                        IF c \in StatNames
                        THEN fillna(Column(df, c), mean(Column(df, c)))[i]
                        ELSE df[i].cells[c]]]]
    /\ pc' = "imputed"
    /\ UNCHANGED <<file, columns, stat_weights, df_normalized, df_sorted, table, out, err>>

\* sklearn's _handle_zeros_in_scale: a scale of zero becomes 1.0 (one is the
\* value 1.0 in the units of the scale).
handle_zeros_in_scale(scale, one) == IF scale = 0 THEN one ELSE scale

\* StandardScaler.fit: mean_ over the values that are not NaN.
scaler_mean(nums) == SumSeq(nums) \div Len(nums)

\* A slip: the sample variance (N - 1 under the sum) for the population one.
scaler_var_sample(nums) ==
    LET m == scaler_mean(nums)
    IN IF Len(nums) = 1 THEN 0
       ELSE SumSeq([i \in 1..Len(nums) |-> Square(nums[i] - m)]) \div (Len(nums) - 1)

\* StandardScaler.fit: var_, the population variance (the sum of squared
\* deviations over the number of values).
scaler_var(nums) ==
    LET m == scaler_mean(nums)
    IN SumSeq([i \in 1..Len(nums) |-> Square(nums[i] - m)]) \div Len(nums)

\* StandardScaler.fit: scale_ = sqrt(var_), zero replaced by 1.0.
scaler_scale(nums) == handle_zeros_in_scale(Sqrt(scaler_var(nums)), Scale)

\* StandardScaler.fit_transform of one column: (x - mean_) / scale_, NaN kept.
standardize(col) ==
    LET nums == Values(col)
    IN [i \in 1..Len(col) |->
          IF IsNum(col[i]) /\ nums # <<>>
          THEN Num(((col[i].v - scaler_mean(nums)) * Scale) \div scaler_scale(nums))
          ELSE NaN]

\* Lines 71-75: standardize the columns named by key_stats.
Normalize ==
    /\ pc = "imputed"
    /\ IF ~(StatNames \subseteq columns)
       THEN \* df[key_stats] names a column the frame does not have
            /\ pc' = "crashed"
            /\ err' = "KeyError: key_stats"
            /\ UNCHANGED df_normalized
       ELSE IF Len(df) = 0
       THEN \* fit_transform needs at least one row
            /\ pc' = "crashed"
            /\ err' = "ValueError: no rows"
            /\ UNCHANGED df_normalized
       ELSE /\ df_normalized' =
                [i \in 1..Len(df) |-> [c \in StatNames |-> standardize(Column(df, c))[i]]]
            /\ pc' = "normalized"
            /\ UNCHANGED err
    /\ UNCHANGED <<file, columns, df, stat_weights, df_sorted, table, out>>

\* Float arithmetic: NaN in, NaN out.
Plus(a, b) == IF IsNum(a) /\ IsNum(b) THEN Num(a.v + b.v) ELSE NaN
Times(a, w) == IF IsNum(a) THEN Num(a.v * w) ELSE NaN

RECURSIVE WeightedSum(_, _, _)
\* Lines 79-81 for one row: 0, plus weight times standardized value for each
\* statistic of the weights, in the order of key_stats.
WeightedSum(zrow, weights, k) ==
    IF k = 0 THEN Num(0)
    ELSE IF key_stats[k] \in DOMAIN weights
    THEN Plus(WeightedSum(zrow, weights, k - 1), Times(zrow[key_stats[k]], weights[key_stats[k]]))
    ELSE WeightedSum(zrow, weights, k - 1)

\* Lines 77-81: the composite score of every row.
Score ==
    /\ pc = "normalized"
    /\ df' = SetColumn(df, "CompositeScore",
                [i \in 1..Len(df) |-> WeightedSum(df_normalized[i], stat_weights, Len(key_stats))])
    /\ columns' = columns \cup {"CompositeScore"}
    /\ pc' = "scored"
    /\ UNCHANGED <<file, stat_weights, df_normalized, df_sorted, table, out, err>>

SeqMin(nums) == CHOOSE x \in {nums[i] : i \in 1..Len(nums)} : \A j \in 1..Len(nums) : x <= nums[j]
SeqMax(nums) == CHOOSE x \in {nums[i] : i \in 1..Len(nums)} : \A j \in 1..Len(nums) : x >= nums[j]

\* A slip: the feature range left at its default, (0, 1).
min_max_scale_unit_range(col) ==
    LET nums == Values(col)
    IN [i \in 1..Len(col) |->
          IF IsNum(col[i]) /\ nums # <<>>
          THEN LET data_range == handle_zeros_in_scale(SeqMax(nums) - SeqMin(nums), 100 * Scale)
                   X_std == ((col[i].v - SeqMin(nums)) * Scale) \div data_range
               IN Num(X_std * (1 - 0) + 0)
          ELSE NaN]

\* MinMaxScaler(feature_range=(0, 100)).fit_transform of one column:
\* X_std = (X - X.min) / (X.max - X.min), a zero range replaced by 1.0;
\* X_scaled = X_std * (100 - 0) + 0.  NaN is kept.
min_max_scale(col) ==
    LET nums == Values(col)
    IN [i \in 1..Len(col) |->
          IF IsNum(col[i]) /\ nums # <<>>
          THEN LET data_range == handle_zeros_in_scale(SeqMax(nums) - SeqMin(nums), 100 * Scale)
                   X_std == ((col[i].v - SeqMin(nums)) * Scale) \div data_range
               IN Num(X_std * (100 - 0) + 0)
          ELSE NaN]

\* Lines 83-86: the rating of every row.
Rescale ==
    /\ pc = "scored"
    /\ df' = SetColumn(df, "PlayerRating", min_max_scale(Column(df, "CompositeScore")))
    /\ columns' = columns \cup {"PlayerRating"}
    /\ pc' = "rated"
    /\ UNCHANGED <<file, stat_weights, df_normalized, df_sorted, table, out, err>>

Orders(n) == {p \in [1..n -> 1..n] : \A i, j \in 1..n : i # j => p[i] # p[j]}

\* sort_values(by='PlayerRating', ascending=False): the ratings descend and
\* NaN comes last.  The sort is 'quicksort', which is not stable: rows of
\* equal rating come in any order.
IsSortedBy(d, p) ==
    \A i, j \in 1..Len(d) : i < j =>
        LET a == d[p[i]].cells["PlayerRating"]
            b == d[p[j]].cells["PlayerRating"]
        IN \/ IsNum(a) /\ IsNum(b) /\ a.v >= b.v
           \/ IsNum(a) /\ IsNaN(b)
           \/ IsNaN(a) /\ IsNaN(b) /\ p[i] < p[j]

\* head(20)
head(d, k) == SubSeq(d, 1, IF Len(d) < k THEN Len(d) ELSE k)

\* Lines 88-96: sort by rating and print the first 20 rows.
Display ==
    /\ pc = "rated"
    /\ \E p \in Orders(Len(df)) :
          /\ IsSortedBy(df, p)
          /\ df_sorted' = [i \in 1..Len(df) |-> df[p[i]]]
    /\ IF display_cols \subseteq columns
       THEN /\ table' = head([i \in 1..Len(df) |->
                                 [Player |-> df_sorted'[i].Player,
                                  cells |-> [c \in display_cols |-> df_sorted'[i].cells[c]]]], TopK)
            /\ out' = out \o <<Msg("top 20", "", 0), Msg("table", "", Len(table'))>>
            /\ pc' = "done"
            /\ UNCHANGED err
       ELSE /\ pc' = "crashed"
            /\ err' = "KeyError: display_cols"
            /\ out' = Append(out, Msg("top 20", "", 0))
            /\ UNCHANGED table
    /\ UNCHANGED <<file, columns, df, stat_weights, df_normalized>>

Next == Load \/ Clean \/ Filter \/ Impute \/ Normalize \/ Score \/ Rescale \/ Display

Spec == Init /\ [][Next]_vars

\* ---------------------------------------------------------------- claims
AfterImpute == {"imputed", "normalized", "scored", "rated", "done"}
AfterNormalize == {"normalized", "scored", "rated", "done"}

RECURSIVE SumOver(_, _)
SumOver(S, f) ==
    IF S = {} THEN 0
    ELSE LET x == CHOOSE y \in S : TRUE IN f[x] + SumOver(S \ {x}, f)

Rating(row) == row.cells["PlayerRating"]
ScoreOf(row) == row.cells["CompositeScore"]

\* A games value that is a number at or above the threshold; a missing or
\* non-numeric one counts as below it.
MeetsThreshold(row) ==
    /\ row.cells["Games"].t = "num"
    /\ row.cells["Games"].v >= min_games

\* C1: whatever the Games cells hold, the filter step keeps exactly the rows
\* whose games are a number >= min_games; a missing or non-numeric games
\* value drops the row and does not fail the run.
C1_FilterKeepsExactlyEligible ==
    [][(pc = "cleaned" /\ "Games" \in columns /\ StatNames \subseteq columns)
          => (pc' = "filtered" /\ df' = SelectSeq(df, MeetsThreshold))]_vars

\* C2: every row of a printed table has a rating that is a number between 0
\* and 100.
C2_RatingDefinedInRange ==
    pc = "done" =>
        \A i \in 1..Len(table) :
            /\ IsNum(Rating(table[i]))
            /\ 0 <= Rating(table[i]).v
            /\ Rating(table[i]).v <= 100 * Scale

C4_AbsentStatisticDoesNotFail ==
    (/\ pc \notin {"start", "loaded"}
     /\ file = "ok"
     /\ DOMAIN stat_weights # {}
     /\ DOMAIN stat_weights # StatNames
     /\ "Games" \in columns
     /\ \E i \in 1..Len(df) : MeetsThreshold(df[i]))
        => /\ \A c \in StatNames \ DOMAIN stat_weights :
                \E m \in 1..Len(out) : out[m] = Msg("warning: column not found", c, 0)
           /\ \A c \in DOMAIN stat_weights : stat_weights[c] = config_weights[c]
           /\ err # "KeyError: key_stats"

\* C5: with no configured statistic in the file, the run stops after the
\* schema check with a configuration error: it does not filter.
C5_NoActiveStatisticStopsRun ==
    [][(/\ pc = "cleaned"
        /\ DOMAIN stat_weights = {}
        /\ "Games" \in columns
        /\ \E i \in 1..Len(df) : MeetsThreshold(df[i]))
          => (/\ pc' = "returned"
              /\ \E m \in 1..Len(out') : out'[m].k = "configuration error")]_vars

\* C6: when the filter leaves no row, the run reports an empty result and
\* returns: it does not impute, standardize or rescale.
C6_EmptyResultStopsRun ==
    [][(pc = "filtered" /\ Len(df) = 0 /\ StatNames \subseteq columns)
          => (/\ pc' = "returned"
              /\ \E m \in 1..Len(out') : out'[m].k = "empty result")]_vars

\* C7: once the imputation has run, no statistic in use has a missing value
\* in any row (a statistic with no value at all is reported or dropped
\* instead).
C7_NoMissingAfterImputation ==
    (pc \in AfterImpute /\ StatNames \subseteq columns) =>
        \A i \in 1..Len(df) : \A c \in DOMAIN stat_weights :
            IsNum(df[i].cells[c])

\* C8: the table is the rows in descending order of rating, rows of equal
\* rating in the order of the file, cut to the first 20.
C8_SortedStableTopK ==
    (pc = "done" /\ \A i \in 1..Len(df) : IsNum(Rating(df[i]))) =>
        /\ Len(table) = (IF Len(df) < TopK THEN Len(df) ELSE TopK)
        /\ \A i, j \in 1..Len(table) : i < j =>
              \/ Rating(table[i]).v > Rating(table[j]).v
              \/ /\ Rating(table[i]).v = Rating(table[j]).v
                 /\ table[i].Player < table[j].Player

\* C9: a run whose file lacks the Games column or a displayed column ends
\* with a diagnostic and a return, never with an unhandled exception.
C9_MissingColumnEndsCleanly ==
    (/\ pc \notin {"start", "loaded"}
     /\ file = "ok"
     /\ ~((display_cols \ {"PlayerRating"}) \subseteq columns))
        => pc # "crashed"

\* C10: the standardized value of a statistic is (x - mean) / std over the
\* imputed column, with the population standard deviation (the squared
\* deviations are averaged over the N rows); a statistic that is the same in
\* every row is standardized to 0 in every row and adds 0 to every score.
C10_PopulationZScoreAfterImputation ==
    pc \in AfterNormalize =>
        \A c \in StatNames :
            (\A i \in 1..Len(df) : IsNum(df[i].cells[c])) =>
                LET N == Len(df)
                    x == [i \in 1..N |-> df[i].cells[c].v]
                    mu == SumOver(1..N, x) \div N
                    variance == SumOver(1..N, [i \in 1..N |-> (x[i] - mu) * (x[i] - mu)]) \div N
                    sigma == CHOOSE r \in 0..(2 * Scale) :
                                r * r <= variance /\ variance < (r + 1) * (r + 1)
                    constant == \A i \in 1..N : x[i] = x[1]
                IN /\ sigma # 0 =>
                        \A i \in 1..N :
                            df_normalized[i][c] = Num(((x[i] - mu) * Scale) \div sigma)
                   /\ constant =>
                        /\ \A i \in 1..N : df_normalized[i][c] = Num(0)
                        /\ pc \in {"scored", "rated", "done"} =>
                              \A i \in 1..N :
                                 LET others == DOMAIN stat_weights \ {c}
                                 IN ScoreOf(df[i]) =
                                       IF \A d \in others : IsNum(df_normalized[i][d])
                                       THEN Num(SumOver(others,
                                               [d \in others |->
                                                   stat_weights[d] * df_normalized[i][d].v]))
                                       ELSE NaN
                   /\ (sigma = 0) = constant

\* C10's case: three rows, a missing Win Rate filled in, and a GPM that is
\* the same in every row.
C10_Witness ==
    /\ pc = "normalized"
    /\ Len(df) = 3
    /\ \A i \in 1..3 : df[i].cells["GPM"] = Num(2 * Scale) /\ df_normalized[i]["GPM"] = Num(0)
    /\ \E i \in 1..3 : df[i].cells["Win Rate"] \notin WinRateCells
    /\ \E i \in 1..3 : IsNum(df_normalized[i]["Win Rate"]) /\ df_normalized[i]["Win Rate"].v > 0

====
